---- MODULE Spec2Model ----
(***************************************************************************)
(* A model of ritobin-tools: the config store (utils/config.rs,            *)
(* commands/config_cmd.rs), the format dispatcher and batch walker         *)
(* (commands/convert.rs) and the text normalizer of diff                   *)
(* (commands/diff.rs).                                                     *)
(*                                                                         *)
(* Strings of the program (config values, path strings) are sequences of   *)
(* one-character strings, so that parsing and normalisation are computed   *)
(* character by character as the code computes them.                       *)
(***************************************************************************)
EXTENDS Integers, Sequences, FiniteSets, TLC

VARIABLES
    value,            \* SpecValue: the literal handed to parse_toml_value
    parsed,           \* SpecValue: what parse_toml_value returned for it
    cfgFile,          \* <install_dir>/config.toml
    installDirKnown,  \* whether install_dir() yields a directory
    defaultDir,       \* what default_hashtable_dir() yields on this host
    ret,              \* the outcome of the last config-store operation
    files,            \* the files of the working tree: path -> content
    hashDir,          \* the state of the directory hashtable_dir names
    pc,               \* "idle", "walking" (inside convert_directory's loop), "done"
    recursive,        \* convert_directory's recursive argument
    stack,            \* the walker: per open directory, the entries not yet yielded
    yielded,          \* the entries the walker has yielded so far, in order
    converted_count,  \* convert_directory's converted_count
    error_count,      \* convert_directory's error_count
    log,              \* one record per file the operation handled, in order
    out,              \* the result of the top-level operation
    files0,           \* the working tree as the operation found it
    disk,             \* "ok", or "full": the device takes no more bytes
    unreadable,       \* the directories of the tree whose entries cannot be listed
    dropped,          \* the errors the walker's iterator yielded and the loop discarded
    cli,              \* SpecMain: the command line and the operation main reached
    dd,               \* SpecDiff: display_diff's arguments and what it printed
    dl                \* SpecDownload: download_hashes' position, requests and files

valueVars == <<value, parsed>>
configVars == <<cfgFile, installDirKnown, defaultDir, ret>>
convertVars == <<files, hashDir, pc, recursive, stack, yielded, converted_count,
                 error_count, log, out, files0>>
faultVars == <<disk, unreadable, dropped>>
otherVars == <<cli, dd, dl>>
vars == <<valueVars, configVars, convertVars, faultVars, otherVars>>

(***************************************************************************)
(* The parts of the state a specification does not use stay as they are    *)
(* here                                                                    *)
(***************************************************************************)
NoCli ==
    [cmd |-> "none", hashtable_dir |-> [some |-> FALSE, path |-> <<>>],
     parsed |-> FALSE, reached |-> "none", ensured |-> "none"]

NoDisplay ==
    [done |-> FALSE, pad |-> 0, text1 |-> <<>>, text2 |-> <<>>, context_lines |-> 0,
     no_color |-> FALSE, ops |-> <<>>, identical |-> FALSE, printed |-> <<>>,
     insertions |-> 0, deletions |-> 0]

NoDownload ==
    [pc |-> "idle", k |-> 0, requested |-> <<>>, created |-> <<>>, dir_made |-> FALSE,
     ok |-> FALSE, err |-> "", failed |-> 0, saved |-> <<>>, saved0 |-> <<>>]

NoFaults == disk = "ok" /\ unreadable = {} /\ dropped = <<>>

(***************************************************************************)
(* Characters and strings                                                  *)
(***************************************************************************)
Digits == {"0", "1", "2", "3", "4", "5", "6", "7", "8", "9"}

DigitVal(c) ==
    CASE c = "0" -> 0 [] c = "1" -> 1 [] c = "2" -> 2 [] c = "3" -> 3
      [] c = "4" -> 4 [] c = "5" -> 5 [] c = "6" -> 6 [] c = "7" -> 7
      [] c = "8" -> 8 [] c = "9" -> 9

\* char::to_ascii_lowercase on the letters the float grammar reads
Lower(c) ==
    CASE c = "E" -> "e" [] c = "I" -> "i" [] c = "N" -> "n" [] c = "F" -> "f"
      [] c = "A" -> "a" [] c = "T" -> "t" [] c = "Y" -> "y"
      [] OTHER -> c

LowerStr(s) == [i \in 1..Len(s) |-> Lower(s[i])]

AllDigits(s) == \A i \in 1..Len(s) : s[i] \in Digits

Contains(s, c) == \E i \in 1..Len(s) : s[i] = c

Tail_(s, n) == SubSeq(s, n + 1, Len(s))     \* s without its first n characters

\* str::replace(from, to) for single characters
Replace(s, from, to) == [i \in 1..Len(s) |-> IF s[i] = from THEN to ELSE s[i]]

RECURSIVE StripZeros(_)
StripZeros(s) ==
    IF Len(s) > 1 /\ s[1] = "0" THEN StripZeros(Tail(s)) ELSE s

\* Lexicographic <= on digit strings of the same length
RECURSIVE DigitsLeq(_, _)
DigitsLeq(a, b) ==
    IF a = <<>> THEN TRUE
    ELSE IF DigitVal(a[1]) < DigitVal(b[1]) THEN TRUE
    ELSE IF DigitVal(a[1]) > DigitVal(b[1]) THEN FALSE
    ELSE DigitsLeq(Tail(a), Tail(b))

\* |i64::MIN| = 9223372036854775808 and i64::MAX = 9223372036854775807
I64MinMagnitude ==
    <<"9","2","2","3","3","7","2","0","3","6","8","5","4","7","7","5","8","0","8">>
I64MaxMagnitude ==
    <<"9","2","2","3","3","7","2","0","3","6","8","5","4","7","7","5","8","0","7">>

MagnitudeFits(digits, limit) ==
    LET d == StripZeros(digits)
    IN  \/ Len(d) < Len(limit)
        \/ Len(d) = Len(limit) /\ DigitsLeq(d, limit)

(***************************************************************************)
(* The std parsers parse_toml_value tries, in the order it tries them      *)
(***************************************************************************)
\* <bool as FromStr>: exactly "true" or "false"
ParseBoolOk(s) == s = <<"t","r","u","e">> \/ s = <<"f","a","l","s","e">>

\* <i64 as FromStr>: an optional sign, one or more digits, no overflow
ParseI64Ok(s) ==
    /\ Len(s) > 0
    /\ LET neg  == s[1] = "-"
           body == IF s[1] \in {"+", "-"} THEN Tail(s) ELSE s
       IN  /\ Len(body) > 0
           /\ AllDigits(body)
           /\ MagnitudeFits(body, IF neg THEN I64MinMagnitude ELSE I64MaxMagnitude)

\* The i64 a literal denotes, as toml prints it: no '+', no leading zeros, no -0
I64Text(s) ==
    LET neg  == s[1] = "-"
        body == StripZeros(IF s[1] \in {"+", "-"} THEN Tail(s) ELSE s)
    IN  IF neg /\ body # <<"0">> THEN <<"-">> \o body ELSE body

\* Digit+ | Digit+ '.' Digit* | Digit* '.' Digit+
MantissaOk(m) ==
    /\ \E i \in 1..Len(m) : m[i] \in Digits
    /\ \A i \in 1..Len(m) : m[i] \in Digits \cup {"."}
    /\ Cardinality({i \in 1..Len(m) : m[i] = "."}) <= 1

\* Sign? Digit+
ExponentOk(e) ==
    LET body == IF Len(e) > 0 /\ e[1] \in {"+", "-"} THEN Tail(e) ELSE e
    IN  Len(body) > 0 /\ AllDigits(body)

\* <f64 as FromStr>: Sign? ( 'inf' | 'infinity' | 'nan' | Number ), the words and
\* the exponent mark read case-insensitively
ParseF64Ok(s) ==
    /\ Len(s) > 0
    /\ LET body == LowerStr(IF s[1] \in {"+", "-"} THEN Tail(s) ELSE s)
           es   == {i \in 1..Len(body) : body[i] = "e"}
       IN  \/ body \in { <<"i","n","f">>, <<"n","a","n">>,
                         <<"i","n","f","i","n","i","t","y">> }
           \/ /\ es = {}
              /\ MantissaOk(body)
           \/ /\ es # {}
              /\ LET k == CHOOSE i \in es : \A j \in es : i <= j
                 IN  /\ MantissaOk(SubSeq(body, 1, k - 1))
                     /\ ExponentOk(Tail_(body, k))

TomlValue(type, val) == [type |-> type, val |-> val]

\* A variant of parse_toml_value that accepts every float literal
parse_toml_value_any_float(v) ==
    IF ParseBoolOk(v) THEN TomlValue("Boolean", v)
    ELSE IF ParseI64Ok(v) THEN TomlValue("Integer", I64Text(v))
    ELSE IF ParseF64Ok(v) THEN TomlValue("Float", v)
    ELSE TomlValue("String", v)

\* parse_toml_value: bool, else i64, else f64 with a '.', else the string itself.
\* A Float keeps its literal as the denotation of the f64.
parse_toml_value(v) ==
    IF ParseBoolOk(v) THEN TomlValue("Boolean", v)
    ELSE IF ParseI64Ok(v) THEN TomlValue("Integer", I64Text(v))
    ELSE IF ParseF64Ok(v) /\ Contains(v, ".") THEN TomlValue("Float", v)
    ELSE TomlValue("String", v)

(***************************************************************************)
(* The config store: utils/config.rs                                       *)
(***************************************************************************)
None_ == [some |-> FALSE, path |-> <<>>]      \* Option::None
Some_(p) == [some |-> TRUE, path |-> p]       \* Option::Some(p)

AppConfig(dir) == [hashtable_dir |-> dir]

\* A toml::Table: a map from keys to values
EmptyTable == [k \in {} |-> TomlValue("String", <<>>)]
Insert(t, k, v) == [x \in DOMAIN t \cup {k} |-> IF x = k THEN v ELSE t[x]]

\* The config file: absent, or text that is a TOML table, or text that is not
NoFile == [exists |-> FALSE, toml |-> FALSE, table |-> EmptyTable]
Garbage == [exists |-> TRUE, toml |-> FALSE, table |-> EmptyTable]
Document(t) == [exists |-> TRUE, toml |-> TRUE, table |-> t]

\* default_hashtable_dir: what the host's directory discovery yields
default_hashtable_dir == defaultDir

\* AppConfig::default
DefaultConfig == AppConfig(default_hashtable_dir)

\* default_config_path is Some exactly when install_dir is
default_config_path_known == installDirKnown

\* normalize_path: every backslash becomes a forward slash
normalize_path(path) == Replace(path, "\\", "/")

\* toml::to_string_pretty of an AppConfig: a None field is left out
ToTable(cfg) ==
    IF cfg.hashtable_dir.some
    THEN Insert(EmptyTable, "hashtable_dir", TomlValue("String", cfg.hashtable_dir.path))
    ELSE EmptyTable

\* serde's coercion of a table to AppConfig: hashtable_dir, when present, must be
\* a string; a missing key is None; other keys are ignored
Coerces(t) == "hashtable_dir" \in DOMAIN t => t["hashtable_dir"].type = "String"
FromTable(t) ==
    IF "hashtable_dir" \in DOMAIN t
    THEN AppConfig(Some_(t["hashtable_dir"].val))
    ELSE AppConfig(None_)

\* fs::write(path, content): creates or truncates, then writes. "create_failed"
\* leaves the file as it was, "write_failed" leaves it truncated
WriteOutcomes == {"ok", "create_failed", "write_failed"}
FsWrite(file, content, w) ==
    CASE w = "ok" -> content
      [] w = "create_failed" -> file
      [] w = "write_failed" -> Garbage

Ok(file, cfg) == [ok |-> TRUE, err |-> "", file |-> file, cfg |-> cfg]
Err(file, msg) == [ok |-> FALSE, err |-> msg, file |-> file, cfg |-> AppConfig(None_)]

\* save_config
save_config(file, cfg, w) ==
    IF default_config_path_known
    THEN LET normalized_cfg ==
                 AppConfig(IF cfg.hashtable_dir.some
                           THEN Some_(normalize_path(cfg.hashtable_dir.path))
                           ELSE None_)
             written == FsWrite(file, Document(ToTable(normalized_cfg)), w)
         IN  IF w = "ok" THEN Ok(written, cfg) ELSE Err(written, "io")
    ELSE Err(file, "Could not determine config path")

\* A variant of load_or_create_config that returns the defaults without saving them
load_or_create_config_unsaved(file, w) ==
    IF ~default_config_path_known THEN Err(file, "Could not determine config path")
    ELSE IF file.exists
    THEN IF ~file.toml \/ ~Coerces(file.table)
         THEN Err(file, "Failed to parse config file")
         ELSE LET cfg == FromTable(file.table)
              IN  Ok(file, IF cfg.hashtable_dir.some THEN cfg ELSE DefaultConfig)
    ELSE Ok(file, DefaultConfig)

\* load_or_create_config
load_or_create_config(file, w) ==
    IF ~default_config_path_known THEN Err(file, "Could not determine config path")
    ELSE IF file.exists
    THEN IF ~file.toml \/ ~Coerces(file.table)
         THEN Err(file, "Failed to parse config file")
         ELSE LET cfg == FromTable(file.table)
              IN  Ok(file, IF cfg.hashtable_dir.some THEN cfg ELSE DefaultConfig)
    ELSE LET saved == save_config(file, DefaultConfig, w)
         IN  IF saved.ok THEN Ok(saved.file, DefaultConfig)
             ELSE Err(saved.file, "Failed to save config file")

\* load_config_as_table: the file's table, or the table of the defaults when there
\* is no file (nothing is written)
load_config_as_table(file) ==
    IF ~default_config_path_known
    THEN [ok |-> FALSE, err |-> "Could not determine config path", table |-> EmptyTable]
    ELSE IF file.exists
    THEN IF file.toml
         THEN [ok |-> TRUE, err |-> "", table |-> file.table]
         ELSE [ok |-> FALSE, err |-> "Failed to parse config file", table |-> EmptyTable]
    ELSE [ok |-> TRUE, err |-> "", table |-> ToTable(DefaultConfig)]

\* save_config_table
save_config_table(file, table, w) ==
    IF default_config_path_known
    THEN LET written == FsWrite(file, Document(table), w)
         IN  IF w = "ok" THEN Ok(written, FromTable(table)) ELSE Err(written, "io")
    ELSE Err(file, "Could not determine config path")

(***************************************************************************)
(* The config commands: commands/config_cmd.rs                             *)
(***************************************************************************)
\* A variant of set_config_value that saves the merged table before validating it
set_config_value_save_first(file, key, val, w) ==
    LET loaded == load_config_as_table(file)
    IN  IF ~loaded.ok THEN Err(file, loaded.err)
        ELSE LET table == Insert(loaded.table, key, parse_toml_value(val))
                 saved == save_config_table(file, table, w)
             IN  IF ~saved.ok THEN Err(saved.file, "Failed to save config")
                 ELSE IF ~Coerces(table) THEN Err(saved.file, "Invalid configuration")
                 ELSE Ok(saved.file, FromTable(table))

\* set_config_value
set_config_value(file, key, val, w) ==
    LET loaded == load_config_as_table(file)
    IN  IF ~loaded.ok THEN Err(file, loaded.err)
        ELSE LET table == Insert(loaded.table, key, parse_toml_value(val))
             IN  IF ~Coerces(table) THEN Err(file, "Invalid configuration")
                 ELSE LET saved == save_config_table(file, table, w)
                      IN  IF saved.ok THEN Ok(saved.file, FromTable(table))
                          ELSE Err(saved.file, "Failed to save config")

\* reset_config
reset_config(file, w) ==
    LET saved == save_config(file, DefaultConfig, w)
    IN  IF saved.ok THEN saved ELSE Err(saved.file, "Failed to reset config")

(***************************************************************************)
(* SpecValue: parse_toml_value applied to bounded literals                 *)
(***************************************************************************)
MaxValueLen == 3

ValueAlphabet == {"0", "1", ".", "e", "-", "+", "x"}

\* Literals longer than MaxValueLen that the parsers tell apart
ValueLiterals ==
    { <<"t","r","u","e">>, <<"f","a","l","s","e">>, <<"T","r","u","e">>,
      <<"t","r","u","e"," ">>,
      <<"i","n","f">>, <<"-","I","n","F">>, <<"n","a","n">>,
      <<"i","n","f","i","n","i","t","y">>,
      <<"1","e","5">>, <<"1","E","5">>, <<"1",".","5","e","-","1">>, <<"1","e","5",".">>,
      <<"0","0","1","2">>, <<"-","0","0","0">>,
      I64MaxMagnitude, I64MinMagnitude, <<"-">> \o I64MinMagnitude,
      <<"-">> \o I64MaxMagnitude, <<"0">> \o I64MaxMagnitude,
      I64MinMagnitude \o <<".","0">> }

ValueStrings ==
    ValueLiterals \cup UNION { [1..n -> ValueAlphabet] : n \in 0..MaxValueLen }

NotParsed == [done |-> FALSE, type |-> "", val |-> <<>>]

ConfigIdle ==
    [op |-> "none", ok |-> TRUE, err |-> "", cfg |-> AppConfig(None_),
     key |-> "", val |-> <<>>, w |-> "ok", before |-> NoFile]

InitValue ==
    /\ value \in ValueStrings
    /\ parsed = NotParsed
    /\ cfgFile = NoFile
    /\ installDirKnown = TRUE
    /\ defaultDir = None_
    /\ ret = ConfigIdle
    /\ files = EmptyTable
    /\ hashDir = "missing"
    /\ pc = "idle"
    /\ recursive = FALSE
    /\ stack = <<>>
    /\ yielded = <<>>
    /\ converted_count = 0
    /\ error_count = 0
    /\ log = <<>>
    /\ out = [op |-> "none", ok |-> TRUE, count |-> 0, texts |-> <<>>,
              output |-> [some |-> FALSE, path |-> [dir |-> <<>>, name |-> <<>>]]]
    /\ files0 = EmptyTable
    /\ NoFaults
    /\ cli = NoCli
    /\ dd = NoDisplay
    /\ dl = NoDownload

ParseValue ==
    /\ ~parsed.done
    /\ parsed' = [done |-> TRUE, type |-> parse_toml_value(value).type,
                  val |-> parse_toml_value(value).val]
    /\ UNCHANGED <<value, configVars, convertVars, faultVars, otherVars>>

NextValue == ParseValue

SpecValue == InitValue /\ [][NextValue]_vars

(***************************************************************************)
(* SpecConfig: the config commands run one after another on one host       *)
(***************************************************************************)
ConfigKeys == {"hashtable_dir", "extra"}

ConfigValues ==
    { <<"t","r","u","e">>, <<"1","2">>, <<"1",".","5">>, <<"1","e","5">>,
      <<"p","/","q">>, <<"p","\\","q">>, <<>> }

HostDefaultDirs == { None_, Some_(<<"h","/","t">>), Some_(<<"h","\\","t">>) }

\* Config files a run may find: none, one this program wrote, a hand-written one
\* that is not TOML, and a hand-written TOML table that is not the schema
InitialConfigFiles ==
    { NoFile, Garbage, Document(EmptyTable),
      Document(Insert(EmptyTable, "hashtable_dir", TomlValue("String", <<"a","/","b">>))),
      Document(Insert(EmptyTable, "hashtable_dir", TomlValue("Integer", <<"7">>))) }

InitConfig ==
    /\ value = <<>>
    /\ parsed = NotParsed
    /\ cfgFile \in InitialConfigFiles
    /\ installDirKnown \in BOOLEAN
    /\ defaultDir \in HostDefaultDirs
    /\ ret = ConfigIdle
    /\ files = EmptyTable
    /\ hashDir = "missing"
    /\ pc = "idle"
    /\ recursive = FALSE
    /\ stack = <<>>
    /\ yielded = <<>>
    /\ converted_count = 0
    /\ error_count = 0
    /\ log = <<>>
    /\ out = [op |-> "none", ok |-> TRUE, count |-> 0, texts |-> <<>>,
              output |-> [some |-> FALSE, path |-> [dir |-> <<>>, name |-> <<>>]]]
    /\ files0 = EmptyTable
    /\ NoFaults
    /\ cli = NoCli
    /\ dd = NoDisplay
    /\ dl = NoDownload

Returned(op, r, key, val, w) ==
    [op |-> op, ok |-> r.ok, err |-> r.err, cfg |-> r.cfg,
     key |-> key, val |-> val, w |-> w, before |-> cfgFile]

\* load_or_create_config, as show_config, ensure_config_exists and the commands
\* call it
LoadOrCreate(w) ==
    LET r == load_or_create_config(cfgFile, w)
    IN  /\ cfgFile' = r.file
        /\ ret' = Returned("load_or_create", r, "", <<>>, w)
        /\ UNCHANGED <<valueVars, installDirKnown, defaultDir, convertVars, faultVars,
                       otherVars>>

\* config set <key> <value>
SetValue(key, val, w) ==
    LET r == set_config_value(cfgFile, key, val, w)
    IN  /\ cfgFile' = r.file
        /\ ret' = Returned("set_value", r, key, val, w)
        /\ UNCHANGED <<valueVars, installDirKnown, defaultDir, convertVars, faultVars,
                       otherVars>>

\* config reset
ResetConfig(w) ==
    LET r == reset_config(cfgFile, w)
    IN  /\ cfgFile' = r.file
        /\ ret' = Returned("reset", r, "", <<>>, w)
        /\ UNCHANGED <<valueVars, installDirKnown, defaultDir, convertVars, faultVars,
                       otherVars>>

NextConfig ==
    \/ \E w \in WriteOutcomes : LoadOrCreate(w)
    \/ \E key \in ConfigKeys, val \in ConfigValues, w \in WriteOutcomes :
          SetValue(key, val, w)
    \/ \E w \in WriteOutcomes : ResetConfig(w)

SpecConfig == InitConfig /\ [][NextConfig]_vars

(***************************************************************************)
(* Paths. A path is its directory (a sequence of component names) and its  *)
(* file name, the name split at its dots: d/x.bin is                       *)
(* [dir |-> <<"d">>, name |-> <<"x", "bin">>], and d/.bin has the name     *)
(* <<"", "bin">>.                                                          *)
(***************************************************************************)
Path(dir, name) == [dir |-> dir, name |-> name]

\* Utf8Path::extension: the part after the last dot, unless the name has no dot
\* or only a leading one
HasExtension(p) ==
    /\ Len(p.name) >= 2
    /\ ~(Len(p.name) = 2 /\ p.name[1] = "")

\* path.extension().unwrap_or("")
extension(p) == IF HasExtension(p) THEN p.name[Len(p.name)] ELSE ""

\* Utf8Path::file_stem: the name without its extension
file_stem(p) == IF HasExtension(p) THEN SubSeq(p.name, 1, Len(p.name) - 1) ELSE p.name

\* Utf8Path::parent
parent(p) == p.dir

\* parent.join(format!("{}.<ext>", stem))
WithExtension(p, ext) == Path(parent(p), Append(file_stem(p), ext))

\* A file name that is not valid UTF-8 holds this component
InvalidUtf8 == "<0xFF>"

\* Utf8Path::from_path(entry.path()) is Some
IsUtf8(p) == \A i \in 1..Len(p.name) : p.name[i] # InvalidUtf8

(***************************************************************************)
(* The working tree                                                        *)
(***************************************************************************)
MaxDepth == 2

RECURSIVE DirChain(_)
DirChain(n) == IF n = 0 THEN <<"d">> ELSE Append(DirChain(n - 1), "s")

\* The directories that exist: d, d/s, d/s/s, ...
ExistingDirs == { DirChain(n) : n \in 0..MaxDepth }

RootDir == DirChain(0)
RootEntry == Path(<<>>, <<"d">>)

\* Utf8Path::is_dir
is_dir(p) == Len(p.name) = 1 /\ (p.dir \o p.name) \in ExistingDirs

\* T1 is a small tree, T2 a large one, T3 one the two writers reject
Trees == {"T1", "T2", "T3"}

\* File contents: a binary tree encoding, a text rendering of a tree (with the
\* names the resolver gave it), or bytes that are neither
BinOf(tree) == [fmt |-> "bin", tree |-> tree, names |-> "-"]
TextOf(tree, names) == [fmt |-> "txt", tree |-> tree, names |-> names]
Junk == [fmt |-> "junk", tree |-> "-", names |-> "-"]

Exists(fs, p) == p \in DOMAIN fs
WriteFile(fs, p, content) ==
    [q \in DOMAIN fs \cup {p} |-> IF q = p THEN content ELSE fs[q]]

(***************************************************************************)
(* The external parsers and writers (ltk_meta, ltk_ritobin)                *)
(***************************************************************************)
\* BinTree::from_reader
BinTree_from_reader(content) ==
    [ok |-> content.fmt = "bin", tree |-> content.tree]

\* ltk_ritobin::parse_to_bin_tree, after read_to_string
parse_to_bin_tree(content) ==
    [ok |-> content.fmt = "txt", tree |-> content.tree]

\* ltk_ritobin::write_with_config_and_hashes
write_with_config_and_hashes(tree, provider) ==
    [ok |-> tree # "T3", text |-> TextOf(tree, provider.names)]

\* BinTree::to_writer into the cursor
to_writer(tree) == [ok |-> tree # "T3", bytes |-> BinOf(tree)]

\* What a file holds when not all of its bytes reached the device
Truncated == [fmt |-> "partial", tree |-> "-", names |-> "-"]

\* The bytes fit the buffer of a BufWriter (8 KiB): those of the small tree do
FitsBuffer(content) == content.tree = "T1"

\* BufWriter::new(File::create(p)).write_all(bytes), and the drop of the writer at
\* the end of the function. Bytes that fit the buffer are only copied by write_all
\* and reach the file in the drop, which discards the error of its flush; more
\* bytes than that are written through, and write_all returns their error.
buffered_write(fs, p, content, device) ==
    IF device = "ok"
    THEN [ok |-> TRUE, lost |-> FALSE, fs |-> WriteFile(fs, p, content)]
    ELSE IF FitsBuffer(content)
    THEN [ok |-> TRUE, lost |-> TRUE, fs |-> WriteFile(fs, p, Truncated)]
    ELSE [ok |-> FALSE, lost |-> FALSE, fs |-> WriteFile(fs, p, Truncated)]

NoProvider == [kind |-> "none", names |-> "-"]
HexHashProvider == [kind |-> "HexHashProvider", names |-> "hex"]

\* HashMapProvider::new followed by load_from_directory: whatever the directory
\* holds is loaded, and a missing or unreadable directory loads nothing
HashMapProvider(dirState) ==
    [kind |-> "HashMapProvider",
     names |-> IF dirState = "present" THEN "table" ELSE "empty"]

(***************************************************************************)
(* The format dispatcher: commands/convert.rs                              *)
(***************************************************************************)
SUPPORTED_EXTENSIONS == {"bin", "py", "ritobin"}

\* One file handled by an operation: what was asked, what came of it, and the
\* file and config accesses made, in order
Rec(input, ok, err, direction, dest, io, provider, cfg) ==
    [input |-> input, ok |-> ok, err |-> err, direction |-> direction,
     dest |-> dest, io |-> io, provider |-> provider, cfg |-> cfg]

NoPath == Path(<<>>, <<>>)
Opt(p) == [some |-> TRUE, path |-> p]
NoOutput == [some |-> FALSE, path |-> NoPath]

\* The errors of the conversion: a message and, for an unsupported extension, the
\* extension and the supported set it names
Error(msg) == [msg |-> msg, ext |-> "", supported |-> {}]
NoError == Error("")

Done(rec, fs, cfgf) == [rec |-> rec, fs |-> fs, cfgFile |-> cfgf]

\* File::open succeeds on an existing file
CanOpen(fs, p) == Exists(fs, p)

\* File::create succeeds when the parent directory exists and the path is not
\* itself a directory
CanCreate(p) == p.dir \in ExistingDirs /\ ~is_dir(p)

\* convert_bin_to_ritobin, lines 117-128: the provider the text is rendered with
convert_provider(config, dirState) ==
    IF config.hashtable_dir.some THEN HashMapProvider(dirState) ELSE HexHashProvider

\* A variant of convert_bin_to_ritobin's output path that keeps the extension
bin_output_path_same_ext(input_path, output) ==
    IF output.some THEN output.path ELSE input_path

\* convert_bin_to_ritobin, lines 133-138: the output path
bin_output_path(input_path, output) ==
    IF output.some THEN output.path ELSE WithExtension(input_path, "py")

\* convert_ritobin_to_bin, lines 178-183: the output path
text_output_path(input_path, output) ==
    IF output.some THEN output.path ELSE WithExtension(input_path, "bin")

\* The accesses of a conversion up to the end of its write
WriteEvents(io, output_path, w) ==
    LET io1 == Append(io, [op |-> "create", path |-> output_path])
        io2 == Append(io1, [op |-> "write", path |-> output_path])
    IN  IF w.lost THEN Append(io2, [op |-> "flush_failed_in_drop", path |-> output_path])
        ELSE io2

\* A variant of convert_bin_to_ritobin that creates its output file first
convert_bin_to_ritobin_create_first(fs, cfgf, input_path, output) ==
    LET loaded == load_or_create_config(cfgf, "ok")
        d == "bin_to_text"
        output_path == bin_output_path(input_path, output)
        io1 == <<[op |-> "load_config", path |-> NoPath]>>
        io2 == Append(io1, [op |-> "create", path |-> output_path])
        io3 == Append(io2, [op |-> "open", path |-> input_path])
        fs1 == WriteFile(fs, output_path, Truncated)
    IN  IF ~loaded.ok
        THEN Done(Rec(input_path, FALSE, Error(loaded.err), d, NoOutput, io1, NoProvider,
                      loaded.cfg), fs, loaded.file)
        ELSE IF ~CanCreate(output_path)
        THEN Done(Rec(input_path, FALSE, Error("Failed to create output file"), d,
                      Opt(output_path), io2, NoProvider, loaded.cfg), fs, loaded.file)
        ELSE IF ~CanOpen(fs1, input_path)
        THEN Done(Rec(input_path, FALSE, Error("Failed to open input file"), d, NoOutput, io3,
                      NoProvider, loaded.cfg), fs1, loaded.file)
        ELSE LET tree == BinTree_from_reader(fs1[input_path])
                 provider == convert_provider(loaded.cfg, hashDir)
                 ritobin_text == write_with_config_and_hashes(tree.tree, provider)
                 w == buffered_write(fs1, output_path, ritobin_text.text, disk)
                 io4 == Append(io3, [op |-> "write", path |-> output_path])
             IN  IF ~tree.ok
                 THEN Done(Rec(input_path, FALSE, Error("Failed to parse .bin file"), d, NoOutput,
                               io3, NoProvider, loaded.cfg), fs1, loaded.file)
                 ELSE IF ~ritobin_text.ok
                 THEN Done(Rec(input_path, FALSE, Error("Failed to convert to ritobin format"),
                               d, NoOutput, io3, provider, loaded.cfg), fs1, loaded.file)
                 ELSE IF ~w.ok
                 THEN Done(Rec(input_path, FALSE, Error("Failed to write output file"), d,
                               Opt(output_path), io4, provider, loaded.cfg), w.fs, loaded.file)
                 ELSE Done(Rec(input_path, TRUE, NoError, d, Opt(output_path), io4,
                               provider, loaded.cfg), w.fs, loaded.file)

\* convert_bin_to_ritobin
convert_bin_to_ritobin(fs, cfgf, input_path, output) ==
    LET loaded == load_or_create_config(cfgf, "ok")
        d == "bin_to_text"
        io1 == <<[op |-> "load_config", path |-> NoPath]>>
        io2 == Append(io1, [op |-> "open", path |-> input_path])
    IN  IF ~loaded.ok
        THEN Done(Rec(input_path, FALSE, Error(loaded.err), d, NoOutput, io1, NoProvider,
                      loaded.cfg), fs, loaded.file)
        ELSE IF ~CanOpen(fs, input_path)
        THEN Done(Rec(input_path, FALSE, Error("Failed to open input file"), d, NoOutput, io2,
                      NoProvider, loaded.cfg), fs, loaded.file)
        ELSE LET tree == BinTree_from_reader(fs[input_path])
             IN  IF ~tree.ok
                 THEN Done(Rec(input_path, FALSE, Error("Failed to parse .bin file"), d, NoOutput,
                               io2, NoProvider, loaded.cfg), fs, loaded.file)
                 ELSE LET provider == convert_provider(loaded.cfg, hashDir)
                          ritobin_text == write_with_config_and_hashes(tree.tree, provider)
                          output_path == bin_output_path(input_path, output)
                          io3 == Append(io2, [op |-> "create", path |-> output_path])
                          w == buffered_write(fs, output_path, ritobin_text.text, disk)
                      IN  IF ~ritobin_text.ok
                          THEN Done(Rec(input_path, FALSE,
                                        Error("Failed to convert to ritobin format"), d,
                                        NoOutput, io2, provider, loaded.cfg), fs, loaded.file)
                          ELSE IF ~CanCreate(output_path)
                          THEN Done(Rec(input_path, FALSE, Error("Failed to create output file"), d,
                                        Opt(output_path), io3, provider, loaded.cfg),
                                    fs, loaded.file)
                          ELSE IF ~w.ok
                          THEN Done(Rec(input_path, FALSE, Error("Failed to write output file"),
                                        d, Opt(output_path), WriteEvents(io2, output_path, w),
                                        provider, loaded.cfg), w.fs, loaded.file)
                          ELSE Done(Rec(input_path, TRUE, NoError, d, Opt(output_path),
                                        WriteEvents(io2, output_path, w), provider, loaded.cfg),
                                    w.fs, loaded.file)

\* convert_ritobin_to_bin
convert_ritobin_to_bin(fs, cfgf, input_path, output) ==
    LET d == "text_to_bin"
        none == AppConfig(None_)
        io1 == <<[op |-> "open", path |-> input_path]>>
    IN  IF ~CanOpen(fs, input_path)
        THEN Done(Rec(input_path, FALSE, Error("Failed to open input file"), d, NoOutput, io1,
                      NoProvider, none), fs, cfgf)
        ELSE LET tree == parse_to_bin_tree(fs[input_path])
             IN  IF ~tree.ok
                 THEN Done(Rec(input_path, FALSE, Error("Failed to parse ritobin file"), d,
                               NoOutput, io1, NoProvider, none), fs, cfgf)
                 ELSE LET output_path == text_output_path(input_path, output)
                          cursor == to_writer(tree.tree)
                          io2 == Append(io1, [op |-> "create", path |-> output_path])
                          w == buffered_write(fs, output_path, cursor.bytes, disk)
                      IN  IF ~cursor.ok
                          THEN Done(Rec(input_path, FALSE,
                                        Error("Failed to convert to binary format"), d,
                                        NoOutput, io1, NoProvider, none), fs, cfgf)
                          ELSE IF ~CanCreate(output_path)
                          THEN Done(Rec(input_path, FALSE, Error("Failed to create output file"), d,
                                        Opt(output_path), io2, NoProvider, none), fs, cfgf)
                          ELSE IF ~w.ok
                          THEN Done(Rec(input_path, FALSE, Error("Failed to write output file"),
                                        d, Opt(output_path), WriteEvents(io1, output_path, w),
                                        NoProvider, none), w.fs, cfgf)
                          ELSE Done(Rec(input_path, TRUE, NoError, d, Opt(output_path),
                                        WriteEvents(io1, output_path, w), NoProvider, none),
                                    w.fs, cfgf)

\* The error of convert_file's last arm: it names the extension and the supported set
UnsupportedExtension(ext) ==
    [msg |-> "Unsupported input file extension", ext |-> ext,
     supported |-> {"bin", "py", "ritobin"}]

\* A variant of convert_file that reads the extension without regard to case
convert_file_caseless(fs, cfgf, input_path, output) ==
    LET ext == extension(input_path)
    IN  IF ext \in {"bin", "BIN"} THEN convert_bin_to_ritobin(fs, cfgf, input_path, output)
        ELSE IF ext \in {"py", "ritobin", "Py"}
        THEN convert_ritobin_to_bin(fs, cfgf, input_path, output)
        ELSE Done(Rec(input_path, FALSE, UnsupportedExtension(ext), "none", NoOutput, <<>>,
                      NoProvider, AppConfig(None_)), fs, cfgf)

\* convert_file
convert_file(fs, cfgf, input_path, output) ==
    LET ext == extension(input_path)
    IN  IF ext = "bin" THEN convert_bin_to_ritobin(fs, cfgf, input_path, output)
        ELSE IF ext = "py" \/ ext = "ritobin"
        THEN convert_ritobin_to_bin(fs, cfgf, input_path, output)
        ELSE Done(Rec(input_path, FALSE, UnsupportedExtension(ext), "none", NoOutput, <<>>,
                      NoProvider, AppConfig(None_)), fs, cfgf)

(***************************************************************************)
(* The batch walker: convert_directory                                     *)
(***************************************************************************)
\* No depth limit: deeper than any directory there is
Unbounded == MaxDepth + 2

\* A variant of the walker's depth limit that ignores the recursive argument
max_depth_always_deep(rec) == Unbounded

\* convert_directory, lines 36-40: WalkDir::new(dir) or WalkDir::new(dir).max_depth(1)
max_depth(rec) == IF rec THEN Unbounded ELSE 1

\* fs::read_dir of a directory: its files and its sub-directories
Listing(dir, fs) ==
    {p \in DOMAIN fs : p.dir = dir}
      \cup {Path(dir, <<"s">>) : x \in {d \in ExistingDirs : d = Append(dir, "s")}}

\* The walker drops the directories it has exhausted
RECURSIVE Trim(_)
Trim(st) ==
    IF st # <<>> /\ st[Len(st)] = {} THEN Trim(SubSeq(st, 1, Len(st) - 1)) ELSE st

\* A variant of the batch result that always reports success
batch_result_always_ok(converted, errors) == [ok |-> TRUE, count |-> 0]

\* convert_directory, lines 80-84: the aggregate result
batch_result(converted, errors) ==
    IF errors > 0 THEN [ok |-> FALSE, count |-> errors] ELSE [ok |-> TRUE, count |-> 0]

Outcome(op, ok, count, texts, output) ==
    [op |-> op, ok |-> ok, count |-> count, texts |-> texts, output |-> output]
NoOutcome == Outcome("none", TRUE, 0, <<>>, NoOutput)

(***************************************************************************)
(* The text normalizer of diff: commands/diff.rs                           *)
(***************************************************************************)
\* validate_extension
validate_extension(p) == extension(p) \in SUPPORTED_EXTENSIONS

\* A variant of the provider choice of file_to_ritobin_text that never loads the
\* hashtable directory
diff_provider_hex_only(config, dirState) == HexHashProvider

\* file_to_ritobin_text, lines 63-78: the provider the text is rendered with
diff_provider(config, dirState) ==
    IF config.hashtable_dir.some THEN HashMapProvider(dirState) ELSE HexHashProvider

Text(rec, text) == [rec |-> rec, text |-> text]

\* A variant of file_to_ritobin_text that brings text files to the canonical form
\* too: it parses them and renders the tree with the resolver
file_to_ritobin_text_rerender(fs, p, config) ==
    LET ext == extension(p)
        io1 == <<[op |-> "open", path |-> p]>>
        provider == diff_provider(config, hashDir)
    IN  IF ext \in SUPPORTED_EXTENSIONS
        THEN IF ~CanOpen(fs, p)
             THEN Text(Rec(p, FALSE, Error("Failed to open file"), "bin_to_text", NoOutput,
                           io1, NoProvider, config), Junk)
             ELSE LET tree == IF ext = "bin" THEN BinTree_from_reader(fs[p])
                                             ELSE parse_to_bin_tree(fs[p])
                  IN  IF ~tree.ok
                      THEN Text(Rec(p, FALSE, Error("Failed to parse file"),
                                    "bin_to_text", NoOutput, io1, NoProvider, config), Junk)
                      ELSE IF ~write_with_config_and_hashes(tree.tree, provider).ok
                      THEN Text(Rec(p, FALSE, Error("Failed to convert to ritobin format"),
                                    "bin_to_text", NoOutput, io1, provider, config), Junk)
                      ELSE Text(Rec(p, TRUE, NoError, "bin_to_text", NoOutput, io1,
                                    provider, config),
                                write_with_config_and_hashes(tree.tree, provider).text)
        ELSE Text(Rec(p, FALSE, UnsupportedExtension(ext), "none", NoOutput, <<>>,
                      NoProvider, config), Junk)

\* file_to_ritobin_text, with load_bin_file and read_text_file
file_to_ritobin_text(fs, p, config) ==
    LET ext == extension(p)
        io1 == <<[op |-> "open", path |-> p]>>
    IN  IF ext = "bin"
        THEN IF ~CanOpen(fs, p)
             THEN Text(Rec(p, FALSE, Error("Failed to open file"), "bin_to_text", NoOutput,
                           io1, NoProvider, config), Junk)
             ELSE LET tree == BinTree_from_reader(fs[p])
                      provider == diff_provider(config, hashDir)
                  IN  IF ~tree.ok
                      THEN Text(Rec(p, FALSE, Error("Failed to parse .bin file"),
                                    "bin_to_text", NoOutput, io1, NoProvider, config), Junk)
                      ELSE IF ~write_with_config_and_hashes(tree.tree, provider).ok
                      THEN Text(Rec(p, FALSE, Error("Failed to convert to ritobin format"),
                                    "bin_to_text", NoOutput, io1, provider, config), Junk)
                      ELSE Text(Rec(p, TRUE, NoError, "bin_to_text", NoOutput, io1,
                                    provider, config),
                                write_with_config_and_hashes(tree.tree, provider).text)
        ELSE IF ext = "py" \/ ext = "ritobin"
        THEN IF ~CanOpen(fs, p)
             THEN Text(Rec(p, FALSE, Error("Failed to open file"), "read_text", NoOutput,
                           io1, NoProvider, config), Junk)
             ELSE IF fs[p].fmt = "bin"
             THEN Text(Rec(p, FALSE, Error("Failed to read file"), "read_text", NoOutput,
                           io1, NoProvider, config), Junk)
             ELSE Text(Rec(p, TRUE, NoError, "read_text", NoOutput, io1, NoProvider,
                           config), fs[p])
        ELSE Text(Rec(p, FALSE, UnsupportedExtension(ext), "none", NoOutput, <<>>,
                      NoProvider, config), Junk)

(***************************************************************************)
(* Spec: one run of convert (a file or a directory) or of diff             *)
(***************************************************************************)
MaxFiles == 2

TreeOfStem(p) == IF p.name[1] = "y" THEN "T2" ELSE "T1"

\* What a well-formed file of this name holds
WellFormed(p) ==
    CASE extension(p) = "bin" -> BinOf(TreeOfStem(p))
      [] extension(p) \in {"py", "ritobin"} -> TextOf(TreeOfStem(p), "hex")
      [] OTHER -> Junk

\* The files a working tree may hold before the run
InitPaths ==
    { Path(RootDir, n) : n \in { <<"x","bin">>, <<"x","py">>, <<"y","v2","bin">>,
                                  <<"x","txt">>, <<InvalidUtf8,"bin">> } }
      \cup { Path(d, <<"y","bin">>) : d \in ExistingDirs \ {RootDir} }
      \cup { Path(DirChain(1), <<"y","ritobin">>) }

\* The files that may be malformed before the run
MayBeJunk(p) == p.name \in { <<"x","bin">>, <<"x","py">>, <<"y","ritobin">> }

\* A file that does not exist
MissingPath == Path(RootDir, <<"z","bin">>)

\* Paths a single-file convert or a diff may be given besides those
OddPaths ==
    { Path(RootDir, n) : n \in { <<"x","BIN">>, <<"x","Py">>, <<"x">>, <<"","bin">>,
                                  <<"x","">> } }

Outputs ==
    { NoOutput, Opt(Path(RootDir, <<"o","txt">>)), Opt(Path(<<"nodir">>, <<"o","py">>)) }

HashtableDir == <<"h","/","t">>

\* Hosts: the config file, the discovered default and the hashtable directory
Hosts ==
    { [file |-> Document(ToTable(AppConfig(Some_(HashtableDir)))), def |-> None_,
       dir |-> "present"],
      [file |-> NoFile, def |-> Some_(HashtableDir), dir |-> "unreadable"],
      [file |-> NoFile, def |-> None_, dir |-> "missing"],
      [file |-> Garbage, def |-> None_, dir |-> "missing"] }

Init ==
    /\ value = <<>>
    /\ parsed = NotParsed
    /\ ret = ConfigIdle
    /\ installDirKnown = TRUE
    /\ \E h \in Hosts :
          /\ cfgFile = h.file
          /\ defaultDir = h.def
          /\ hashDir = h.dir
    /\ \E S \in SUBSET InitPaths :
          /\ Cardinality(S) <= MaxFiles
          /\ \E J \in SUBSET {p \in S : MayBeJunk(p)} :
                files = [p \in S |-> IF p \in J THEN Junk ELSE WellFormed(p)]
    /\ pc = "idle"
    /\ recursive = FALSE
    /\ stack = <<>>
    /\ yielded = <<>>
    /\ converted_count = 0
    /\ error_count = 0
    /\ log = <<>>
    /\ out = NoOutcome
    /\ files0 = files
    /\ NoFaults
    /\ cli = NoCli
    /\ dd = NoDisplay
    /\ dl = NoDownload

hostVars == <<valueVars, ret, installDirKnown, defaultDir, hashDir, disk, unreadable,
              otherVars>>

\* convert <input> [--output PATH] on a path that is not a directory
ConvertFile(input, output) ==
    /\ pc = "idle"
    /\ ~is_dir(input)
    /\ input \in DOMAIN files \cup OddPaths \cup {MissingPath}
    /\ LET r == convert_file(files, cfgFile, input, output)
       IN  /\ files' = r.fs
           /\ cfgFile' = r.cfgFile
           /\ log' = <<r.rec>>
           /\ out' = Outcome("convert_file", r.rec.ok, 0, <<>>, output)
    /\ pc' = "done"
    /\ files0' = files
    /\ UNCHANGED <<hostVars, recursive, stack, yielded, converted_count, error_count,
                   dropped>>

\* convert <dir> [--recursive]: convert_directory up to its loop
StartWalk(rec) ==
    /\ pc = "idle"
    /\ is_dir(RootEntry)
    /\ recursive' = rec
    /\ stack' = << {RootEntry} >>
    /\ yielded' = <<>>
    /\ converted_count' = 0
    /\ error_count' = 0
    /\ log' = <<>>
    /\ pc' = "walking"
    /\ files0' = files
    /\ dropped' = <<>>
    /\ UNCHANGED <<hostVars, cfgFile, files, out>>

\* One turn of convert_directory's loop: the walker yields an entry of the
\* directory it is reading (in the order the file system gives them), opening the
\* entry when it is a directory within the depth limit, and the loop body handles
\* it. A file the body creates in the directory being read may or may not be
\* yielded later (seen). For a directory it cannot list the walker yields an error
\* in place of the entries, which filter_map(|e| e.ok()) discards.
WalkStep(e, seen) ==
    /\ pc = "walking"
    /\ LET st == Trim(stack)
       IN  /\ st # <<>>
           /\ e \in st[Len(st)]
           /\ LET depth == Len(st) - 1
                  st1 == [st EXCEPT ![Len(st)] = @ \ {e}]
                  opens == is_dir(e) /\ depth < max_depth(recursive)
                  listed == (e.dir \o e.name) \notin unreadable
                  st2 == IF opens /\ listed
                         THEN Append(st1, Listing(e.dir \o e.name, files))
                         ELSE st1
              IN  /\ yielded' = Append(yielded, e)
                  /\ dropped' = IF opens /\ ~listed
                                THEN Append(dropped, [op |-> "read_dir", path |-> e])
                                ELSE dropped
                  /\ IF ~IsUtf8(e) \/ is_dir(e) \/ extension(e) \notin SUPPORTED_EXTENSIONS
                     THEN /\ stack' = st2
                          /\ UNCHANGED <<files, cfgFile, log, converted_count, error_count>>
                     ELSE LET r == convert_file(files, cfgFile, e, NoOutput)
                              created == DOMAIN r.fs \ DOMAIN files
                          IN  /\ files' = r.fs
                              /\ cfgFile' = r.cfgFile
                              /\ log' = Append(log, r.rec)
                              /\ converted_count' =
                                     IF r.rec.ok THEN converted_count + 1 ELSE converted_count
                              /\ error_count' =
                                     IF r.rec.ok THEN error_count ELSE error_count + 1
                              /\ stack' = IF seen
                                          THEN [st2 EXCEPT ![Len(st2)] = @ \cup created]
                                          ELSE st2
    /\ UNCHANGED <<hostVars, pc, recursive, out, files0>>

\* convert_directory after its loop: the summary and the aggregate result
WalkFinish ==
    /\ pc = "walking"
    /\ Trim(stack) = <<>>
    /\ out' = Outcome("convert_directory", batch_result(converted_count, error_count).ok,
                      batch_result(converted_count, error_count).count, <<>>, NoOutput)
    /\ pc' = "done"
    /\ stack' = <<>>
    /\ UNCHANGED <<hostVars, cfgFile, files, recursive, yielded, converted_count,
                   error_count, log, files0, dropped>>

\* diff <file1> <file2>, up to display_diff
Diff(path1, path2) ==
    /\ pc = "idle"
    /\ path1 \in DOMAIN files \cup {Path(RootDir, <<"x","BIN">>)}
    /\ path2 \in DOMAIN files \cup {MissingPath}
    /\ pc' = "done"
    /\ files0' = files
    /\ IF ~validate_extension(path1) \/ ~validate_extension(path2)
       THEN /\ out' = Outcome("diff", FALSE, 0, <<>>, NoOutput)
            /\ log' = <<>>
            /\ UNCHANGED cfgFile
       ELSE LET loaded == load_or_create_config(cfgFile, "ok")
                t1 == file_to_ritobin_text(files, path1, loaded.cfg)
                t2 == file_to_ritobin_text(files, path2, loaded.cfg)
            IN  /\ cfgFile' = loaded.file
                /\ IF ~loaded.ok
                   THEN /\ out' = Outcome("diff", FALSE, 0, <<>>, NoOutput)
                        /\ log' = <<>>
                   ELSE IF ~t1.rec.ok
                   THEN /\ out' = Outcome("diff", FALSE, 0, <<>>, NoOutput)
                        /\ log' = <<t1.rec>>
                   ELSE IF ~t2.rec.ok
                   THEN /\ out' = Outcome("diff", FALSE, 0, <<t1.text>>, NoOutput)
                        /\ log' = <<t1.rec, t2.rec>>
                   ELSE /\ out' = Outcome("diff", TRUE, 0, <<t1.text, t2.text>>, NoOutput)
                        /\ log' = <<t1.rec, t2.rec>>
    /\ UNCHANGED <<hostVars, files, recursive, stack, yielded, converted_count,
                   error_count, dropped>>

Next ==
    \/ \E input \in InitPaths \cup OddPaths \cup {MissingPath}, output \in Outputs :
          ConvertFile(input, output)
    \/ \E rec \in BOOLEAN : StartWalk(rec)
    \/ \E e \in InitPaths \cup { WithExtension(p, x) : p \in InitPaths, x \in {"py", "bin"} }
                 \cup { Path(SubSeq(d, 1, Len(d) - 1), <<d[Len(d)]>>) : d \in ExistingDirs },
          seen \in BOOLEAN : WalkStep(e, seen)
    \/ WalkFinish
    \/ \E path1 \in InitPaths \cup OddPaths, path2 \in InitPaths \cup {MissingPath} :
          Diff(path1, path2)

Spec == Init /\ [][Next]_vars

(***************************************************************************)
(* The parts of the state left alone by the specifications below           *)
(***************************************************************************)
NoValue == value = <<>> /\ parsed = NotParsed

NoConfig ==
    /\ cfgFile = NoFile
    /\ installDirKnown = TRUE
    /\ defaultDir = None_
    /\ ret = ConfigIdle

NoTree ==
    /\ files = EmptyTable
    /\ hashDir = "missing"
    /\ pc = "idle"
    /\ recursive = FALSE
    /\ stack = <<>>
    /\ yielded = <<>>
    /\ converted_count = 0
    /\ error_count = 0
    /\ log = <<>>
    /\ out = NoOutcome
    /\ files0 = EmptyTable

(***************************************************************************)
(* The diff engine: display_diff (commands/diff.rs) over similar::TextDiff *)
(* A text is a sequence of characters; a line is the characters up to and  *)
(* including its line terminator.                                          *)
(***************************************************************************)
MaxLines == 3

\* The significand of an f32, the type of TextDiff::ratio
F32Mantissa == 24

\* TextDiff::from_lines: the text split after each line terminator
RECURSIVE split_lines(_, _)
split_lines(text, cur) ==
    IF text = <<>> THEN (IF cur = <<>> THEN <<>> ELSE <<cur>>)
    ELSE IF Head(text) = "\n"
    THEN <<Append(cur, "\n")>> \o split_lines(Tail(text), <<>>)
    ELSE split_lines(Tail(text), Append(cur, Head(text)))

\* The lines of a text that begins with pad lines "a\n"
PadLine == <<"a", "\n">>
Lines(text) == split_lines(text, <<>>)

Count(script, tag) == Cardinality({ i \in 1..Len(script) : script[i] = tag })

\* The most lines two sequences of lines can have in common, in order
RECURSIVE Lcs(_, _)
Lcs(old, new) ==
    IF old = <<>> \/ new = <<>> THEN 0
    ELSE IF Head(old) = Head(new) THEN 1 + Lcs(Tail(old), Tail(new))
    ELSE LET d == Lcs(Tail(old), new)
             i == Lcs(old, Tail(new))
         IN  IF d >= i THEN d ELSE i

\* The diff algorithm (Myers) yields a shortest edit script of old against new, one
\* tag per line (Equal, Delete or Insert); which one, among the shortest, is the
\* library's choice
RECURSIVE ShortestScripts(_, _)
ShortestScripts(old, new) ==
    IF old = <<>> THEN { [i \in 1..Len(new) |-> "I"] }
    ELSE IF new = <<>> THEN { [i \in 1..Len(old) |-> "D"] }
    ELSE LET best == Lcs(old, new)
         IN  (IF Head(old) = Head(new) /\ 1 + Lcs(Tail(old), Tail(new)) = best
              THEN { <<"E">> \o t : t \in ShortestScripts(Tail(old), Tail(new)) } ELSE {})
             \cup (IF Lcs(Tail(old), new) = best
                   THEN { <<"D">> \o t : t \in ShortestScripts(Tail(old), new) } ELSE {})
             \cup (IF Lcs(old, Tail(new)) = best
                   THEN { <<"I">> \o t : t \in ShortestScripts(old, Tail(new)) } ELSE {})

\* usize as f32: the nearest value with a 24-bit significand, ties to even
RECURSIVE Ulp(_, _)
Ulp(n, step) == IF n < (2 ^ F32Mantissa) * step THEN step ELSE Ulp(n, 2 * step)

AsF32(n) ==
    LET step == Ulp(n, 1)
        q == n \div step
        r == n % step
    IN  IF 2 * r > step \/ (2 * r = step /\ q % 2 = 1) THEN (q + 1) * step ELSE q * step

\* similar's get_diff_ratio compared with 1.0: 2.0 * matches as f32 / len as f32,
\* and 1.0 for two empty texts. The quotient of two f32 rounds to 1.0 when it is
\* within half a unit in the last place of it.
ratio_is_one(matches, old_len, new_len) ==
    LET len == old_len + new_len
        x == 2 * AsF32(matches)
        y == AsF32(len)
    IN  IF len = 0 THEN TRUE
        ELSE x >= y \/ (y - x) <= y \div (2 ^ (F32Mantissa + 1))

\* One printed item: what it is, its sign and text, its colour, its numbers
Item(kind, sign, text, color, nums) ==
    [kind |-> kind, sign |-> sign, text |-> text, color |-> color, nums |-> nums]

\* diff.iter_all_changes(): per line its tag, its text and the numbers of old and
\* new lines before it
RECURSIVE all_changes(_, _, _, _, _)
all_changes(script, old, new, oi, ni) ==
    IF script = <<>> THEN <<>>
    ELSE LET tag == Head(script)
         IN  IF tag = "E"
             THEN <<[tag |-> "E", value |-> Head(old), old_index |-> oi, new_index |-> ni]>>
                  \o all_changes(Tail(script), Tail(old), Tail(new), oi + 1, ni + 1)
             ELSE IF tag = "D"
             THEN <<[tag |-> "D", value |-> Head(old), old_index |-> oi, new_index |-> ni]>>
                  \o all_changes(Tail(script), Tail(old), new, oi + 1, ni)
             ELSE <<[tag |-> "I", value |-> Head(new), old_index |-> oi, new_index |-> ni]>>
                  \o all_changes(Tail(script), old, Tail(new), oi, ni + 1)

\* change.missing_newline()
missing_newline(line) == line = <<>> \/ line[Len(line)] # "\n"

\* UnifiedDiffHunkRange as the hunk header shows it: first line and length
HunkRange(start, end) ==
    IF end = start THEN <<start, 0>> ELSE <<start + 1, end - start>>

\* unified_diff().context_radius(n).iter_hunks(): a line is shown when a change
\* lies within n lines of it, and a hunk is a longest run of shown lines
Shown(changes, n) ==
    { i \in 1..Len(changes) :
        \E c \in 1..Len(changes) :
           /\ changes[c].tag # "E"
           /\ c - i <= n
           /\ i - c <= n }

HunkStarts(shown) == { i \in shown : (i - 1) \notin shown }

HunkEnd(shown, i) ==
    CHOOSE j \in shown : j >= i /\ (j + 1) \notin shown /\ \A k \in i..j : k \in shown

\* A variant of the summary line that prints the two counts the other way round
\* when it is coloured
summary_line_swapped(insertions, deletions, no_color) ==
    IF no_color
    THEN <<Item("summary", "", <<>>, "none", <<insertions, deletions>>)>>
    ELSE <<Item("summary", "", <<>>, "bold", <<deletions, insertions>>)>>

\* display_diff, lines 206-222: the summary
summary_line(insertions, deletions, no_color) ==
    IF no_color
    THEN <<Item("summary", "", <<>>, "none", <<insertions, deletions>>)>>
    ELSE <<Item("summary", "", <<>>, "bold", <<insertions, deletions>>)>>

\* display_diff, lines 174-202: one change of a hunk
print_change(ch, no_color) ==
    LET sign == CASE ch.tag = "D" -> "-" [] ch.tag = "I" -> "+" [] OTHER -> " "
        color == IF no_color THEN "none"
                 ELSE CASE ch.tag = "D" -> "red" [] ch.tag = "I" -> "green"
                        [] OTHER -> "none"
    IN  <<Item("line", sign, ch.value, color, <<>>)>>
        \o (IF missing_newline(ch.value)
            THEN << Item("blank", "", <<>>, "none", <<>>),
                    Item("no_newline", "", <<>>, IF no_color THEN "none" ELSE "yellow",
                         <<>>) >>
            ELSE <<>>)

RECURSIVE print_changes(_, _, _, _)
print_changes(changes, i, j, no_color) ==
    IF i > j THEN <<>>
    ELSE print_change(changes[i], no_color) \o print_changes(changes, i + 1, j, no_color)

\* display_diff, lines 160-203: the hunks, in order
RECURSIVE print_hunks(_, _, _, _)
print_hunks(changes, shown, from, no_color) ==
    LET starts == { i \in HunkStarts(shown) : i >= from }
    IN  IF starts = {} THEN <<>>
        ELSE LET i == CHOOSE a \in starts : \A b \in starts : a <= b
                 j == HunkEnd(shown, i)
                 last == changes[j]
                 old_end == last.old_index + (IF last.tag = "I" THEN 0 ELSE 1)
                 new_end == last.new_index + (IF last.tag = "D" THEN 0 ELSE 1)
             IN  <<Item("hunk_header", "", <<>>, IF no_color THEN "none" ELSE "cyan",
                        HunkRange(changes[i].old_index, old_end)
                          \o HunkRange(changes[i].new_index, new_end))>>
                 \o print_changes(changes, i, j, no_color)
                 \o print_hunks(changes, shown, j + 1, no_color)

\* The lines of the common prefix that can reach a hunk: the last n of them
PadShown(pad, n) == IF pad < n THEN pad ELSE n

Printed(identical, printed, insertions, deletions) ==
    [identical |-> identical, printed |-> printed, insertions |-> insertions,
     deletions |-> deletions]

\* display_diff on two texts that share a prefix of pad lines; script is the edit
\* script TextDiff::from_lines computed for the lines after the prefix
display_diff(pad, text1, text2, script, context_lines, no_color) ==
    LET old == Lines(text1)
        new == Lines(text2)
        matches == pad + Count(script, "E")
        shown == PadShown(pad, context_lines)
        changes == all_changes([i \in 1..shown |-> "E"] \o script,
                               [i \in 1..shown |-> PadLine] \o old,
                               [i \in 1..shown |-> PadLine] \o new,
                               pad - shown, pad - shown)
        insertions == Count(script, "I")
        deletions == Count(script, "D")
    IN  IF ratio_is_one(matches, pad + Len(old), pad + Len(new))
        THEN Printed(TRUE,
                     <<Item("identical", "", <<>>, IF no_color THEN "none" ELSE "green",
                            <<>>)>>, 0, 0)
        ELSE Printed(FALSE,
                     << Item("header_old", "---", <<>>, IF no_color THEN "none" ELSE "red",
                             <<>>),
                        Item("header_new", "+++", <<>>,
                             IF no_color THEN "none" ELSE "green", <<>>) >>
                     \o print_hunks(changes, Shown(changes, context_lines), 1, no_color)
                     \o <<Item("blank", "", <<>>, "none", <<>>)>>
                     \o summary_line(insertions, deletions, no_color),
                     insertions, deletions)

(***************************************************************************)
(* SpecDiff: display_diff on two texts                                     *)
(***************************************************************************)
RECURSIVE Join(_)
Join(ls) == IF ls = <<>> THEN <<>> ELSE Head(ls) \o <<"\n">> \o Join(Tail(ls))

\* Texts of at most MaxLines lines, the last one with or without its terminator
DiffTexts ==
    LET seqs == UNION { [1..n -> { <<"a">>, <<"x">> }] : n \in 0..MaxLines }
        whole == { Join(ls) : ls \in seqs }
    IN  whole \cup { SubSeq(t, 1, Len(t) - 1) : t \in whole \ {<<>>} }
          \cup { <<"a","\n","b","\n","c","\n">>, <<"a","\n","x","\n","c","\n">> }

\* The pairs of texts compared: short ones, and long ones that share a prefix of
\* as many lines as an f32 counts exactly and go on for at most one line
DiffInputs ==
    LET ShortTexts == { <<>>, <<"a","\n">>, <<"x","\n">>, <<"x">> }
    IN  { [pad |-> 0, text1 |-> t1, text2 |-> t2] : t1 \in DiffTexts, t2 \in DiffTexts }
          \cup { [pad |-> 2 ^ F32Mantissa, text1 |-> t1, text2 |-> t2] :
                   t1 \in ShortTexts, t2 \in ShortTexts }

InitDiff ==
    /\ NoValue
    /\ NoConfig
    /\ NoTree
    /\ NoFaults
    /\ cli = NoCli
    /\ dl = NoDownload
    /\ \E in \in DiffInputs, n \in {0, 1}, no_color \in BOOLEAN :
          dd = [done |-> FALSE, pad |-> in.pad, text1 |-> in.text1, text2 |-> in.text2,
                context_lines |-> n, no_color |-> no_color, ops |-> <<>>,
                identical |-> FALSE, printed |-> <<>>, insertions |-> 0, deletions |-> 0]

\* display_diff(text1, text2, path1, path2, context_lines, no_color)
DisplayDiff ==
    /\ ~dd.done
    /\ \E script \in ShortestScripts(Lines(dd.text1), Lines(dd.text2)) :
          LET r == display_diff(dd.pad, dd.text1, dd.text2, script, dd.context_lines,
                                dd.no_color)
          IN  dd' = [dd EXCEPT !.done = TRUE, !.ops = script, !.identical = r.identical,
                               !.printed = r.printed, !.insertions = r.insertions,
                               !.deletions = r.deletions]
    /\ UNCHANGED <<valueVars, configVars, convertVars, faultVars, cli, dl>>

NextDiff == DisplayDiff

SpecDiff == InitDiff /\ [][NextDiff]_vars

(***************************************************************************)
(* SpecMain: the program from its command line (main.rs), on a host whose  *)
(* device may be full and whose directories may be unreadable              *)
(***************************************************************************)
\* What a user may ask for: the commands of the CLI surface
CliCommands ==
    {"convert", "diff", "config show", "config reset", "config set", "download-hashes"}

\* enum Commands: the subcommands the argument parser accepts
Commands == {"convert"}

\* ensure_config_exists: load_or_create_config, its error kept inside the message
\* "Failed to initialize config: ..."
ensure_config_exists(file, w) ==
    LET r == load_or_create_config(file, w)
    IN  [ok |-> r.ok, file |-> r.file, err |-> r.err]

\* main's match on args.command: the operation it calls
dispatch(cmd) == IF cmd = "convert" THEN "convert" ELSE "none"

\* main up to its dispatch: the result of ensure_config_exists is discarded, the
\* arguments are parsed (a subcommand outside Commands ends the process with a usage
\* error), and the command is dispatched; args.config and args.hashtable_dir are
\* not read
main(file, cmd, w) ==
    LET ensured == ensure_config_exists(file, w)
        accepted == cmd \in Commands
    IN  [file |-> ensured.file,
         ensured |-> IF ensured.ok THEN "ok" ELSE ensured.err,
         parsed |-> accepted,
         reached |-> IF accepted THEN dispatch(cmd) ELSE "none"]

\* The working trees of SpecMain: per path, what the file may hold
MainContents(p) ==
    CASE p.name = <<"x","bin">> -> { BinOf("T1"), BinOf("T3"), Junk }
      [] p.name = <<"x","py">> -> { TextOf("T1", "hex"), TextOf("T3", "hex"), Junk }
      [] OTHER -> { BinOf("T2") }

MainTrees ==
    LET MainPaths == { Path(RootDir, <<"x","bin">>), Path(RootDir, <<"x","py">>),
                       Path(DirChain(1), <<"y","bin">>) }
    IN  UNION { { f \in [S -> UNION { MainContents(p) : p \in S }] :
                    \A p \in S : f[p] \in MainContents(p) } :
                S \in { T \in SUBSET MainPaths : Cardinality(T) <= MaxFiles } }

InitMain ==
    /\ NoValue
    /\ ret = ConfigIdle
    /\ installDirKnown = TRUE
    /\ \E h \in Hosts :
          /\ cfgFile = h.file
          /\ defaultDir = h.def
          /\ hashDir = h.dir
    /\ files \in MainTrees
    /\ pc = "start"
    /\ recursive = FALSE
    /\ stack = <<>>
    /\ yielded = <<>>
    /\ converted_count = 0
    /\ error_count = 0
    /\ log = <<>>
    /\ out = NoOutcome
    /\ files0 = files
    /\ disk \in {"ok", "full"}
    /\ unreadable \in { {}, {DirChain(1)} }
    /\ dropped = <<>>
    /\ cli = NoCli
    /\ dd = NoDisplay
    /\ dl = NoDownload

\* main, from the start of the process to the dispatch of the command
Main(cmd, dir, w) ==
    /\ pc = "start"
    /\ LET m == main(cfgFile, cmd, w)
       IN  /\ cfgFile' = m.file
           /\ cli' = [cmd |-> cmd, hashtable_dir |-> dir, parsed |-> m.parsed,
                      reached |-> m.reached, ensured |-> m.ensured]
           /\ pc' = IF m.reached = "convert" THEN "idle" ELSE "done"
    /\ UNCHANGED <<valueVars, installDirKnown, defaultDir, ret, files, hashDir, recursive,
                   stack, yielded, converted_count, error_count, log, out, files0,
                   faultVars, dd, dl>>

NextMain ==
    \/ \E cmd \in CliCommands, dir \in { None_, Some_(<<"o","/","t">>) },
          w \in WriteOutcomes : Main(cmd, dir, w)
    \/ \E input \in InitPaths \cup OddPaths \cup {MissingPath}, output \in Outputs :
          ConvertFile(input, output)
    \/ \E rec \in BOOLEAN : StartWalk(rec)
    \/ \E e \in InitPaths \cup { WithExtension(p, x) : p \in InitPaths, x \in {"py", "bin"} }
                 \cup { Path(SubSeq(d, 1, Len(d) - 1), <<d[Len(d)]>>) : d \in ExistingDirs },
          seen \in BOOLEAN : WalkStep(e, seen)
    \/ WalkFinish

SpecMain == InitMain /\ [][NextMain]_vars

(***************************************************************************)
(* download_hashes (commands/download_hashes.rs)                           *)
(***************************************************************************)
\* HASH_FILES: the file names, in the order of the table
HASH_FILES ==
    << "hashes.binentries.txt", "hashes.binfields.txt", "hashes.binhashes.txt",
       "hashes.bintypes.txt" >>

\* What the network and the target directory may do to one download
NetOutcomes == {"ok", "request_failed", "create_failed", "read_failed", "write_failed"}

Fetched(ok, err, created, saved) ==
    [ok |-> ok, err |-> err, created |-> created, saved |-> saved]

\* download_file_with_progress for the k-th file: the request, then File::create,
\* then the copy loop; File::create truncates, and the bytes copied before a failed
\* read or write stay in the file
download_file_with_progress(saved, k, net) ==
    CASE net = "request_failed" -> Fetched(FALSE, "Failed to download", FALSE, saved)
      [] net = "create_failed" -> Fetched(FALSE, "Failed to create file", FALSE, saved)
      [] net = "read_failed" ->
            Fetched(FALSE, "Failed to read from download stream", TRUE,
                    [saved EXCEPT ![k] = "partial"])
      [] net = "write_failed" ->
            Fetched(FALSE, "Failed to write to file", TRUE, [saved EXCEPT ![k] = "partial"])
      [] OTHER -> Fetched(TRUE, "", TRUE, [saved EXCEPT ![k] = "new"])

\* A loop that goes on to the next file whatever the download returned
proceeds_always(r) == TRUE

\* The `?` after download_file_with_progress: the loop goes on only after Ok
proceeds(r) == r.ok

InitDownload ==
    /\ NoValue
    /\ ret = ConfigIdle
    /\ installDirKnown = TRUE
    /\ \E h \in Hosts :
          /\ cfgFile = h.file
          /\ defaultDir = h.def
          /\ hashDir = h.dir
    /\ files = EmptyTable
    /\ pc = "idle"
    /\ recursive = FALSE
    /\ stack = <<>>
    /\ yielded = <<>>
    /\ converted_count = 0
    /\ error_count = 0
    /\ log = <<>>
    /\ out = NoOutcome
    /\ files0 = EmptyTable
    /\ NoFaults
    /\ cli = NoCli
    /\ dd = NoDisplay
    /\ \E s \in [1..Len(HASH_FILES) -> {"absent", "old"}] :
          dl = [NoDownload EXCEPT !.saved = s, !.saved0 = s]

\* download_hashes up to the loop: the config, the target directory, create_dir_all
DownloadStart(w, d) ==
    /\ dl.pc = "idle"
    /\ LET loaded == load_or_create_config(cfgFile, w)
       IN  /\ cfgFile' = loaded.file
           /\ IF ~loaded.ok
              THEN /\ dl' = [dl EXCEPT !.pc = "done", !.err = loaded.err]
                   /\ UNCHANGED hashDir
              ELSE IF ~loaded.cfg.hashtable_dir.some
              THEN /\ dl' = [dl EXCEPT !.pc = "done",
                                       !.err = "No hashtable directory configured"]
                   /\ UNCHANGED hashDir
              ELSE IF d = "failed"
              THEN /\ dl' = [dl EXCEPT !.pc = "done", !.err = "Failed to create directory"]
                   /\ UNCHANGED hashDir
              ELSE /\ dl' = [dl EXCEPT !.pc = "loop", !.k = 1, !.dir_made = TRUE]
                   /\ hashDir' = IF hashDir = "missing" THEN "present" ELSE hashDir
    /\ UNCHANGED <<valueVars, ret, installDirKnown, defaultDir, files, pc, recursive, stack,
                   yielded, converted_count, error_count, log, out, files0, faultVars, cli,
                   dd>>

\* One turn of the loop over HASH_FILES, and the return after the last one
DownloadFile(net) ==
    /\ dl.pc = "loop"
    /\ LET k == dl.k
           r == download_file_with_progress(dl.saved, k, net)
           go == proceeds(r)
           last == k = Len(HASH_FILES)
       IN  dl' = [dl EXCEPT !.requested = Append(@, HASH_FILES[k]),
                            !.created = IF r.created THEN Append(@, HASH_FILES[k]) ELSE @,
                            !.saved = r.saved,
                            !.failed = IF @ = 0 /\ ~r.ok THEN k ELSE @,
                            !.k = IF go /\ ~last THEN k + 1 ELSE k,
                            !.pc = IF go /\ ~last THEN "loop" ELSE "done",
                            !.ok = go /\ last,
                            !.err = IF go THEN "" ELSE r.err]
    /\ UNCHANGED <<valueVars, configVars, convertVars, faultVars, cli, dd>>

NextDownload ==
    \/ \E w \in WriteOutcomes, d \in {"ok", "failed"} : DownloadStart(w, d)
    \/ \E net \in NetOutcomes : DownloadFile(net)

SpecDownload == InitDownload /\ [][NextDownload]_vars

(***************************************************************************)
(* Properties of the config store                                          *)
(***************************************************************************)
HasBackslash(path) == Contains(path, "\\")

\* b is a with every backslash turned into a forward slash
SlashForm(a, b) ==
    /\ Len(a) = Len(b)
    /\ \A i \in 1..Len(a) : b[i] = (IF a[i] = "\\" THEN "/" ELSE a[i])

PersistedDir ==
    IF cfgFile.exists /\ cfgFile.toml /\ "hashtable_dir" \in DOMAIN cfgFile.table
    THEN Some_(cfgFile.table["hashtable_dir"].val)
    ELSE None_

\* C6: set_value validates the whole merged document before it persists anything:
\* when the merged document does not coerce to AppConfig, set_value fails and the
\* config file is exactly what it was before the call; and whenever set_value has
\* changed the file, the merged document had passed validation.
C6_ValidateBeforePersist ==
    ret.op = "set_value" =>
        LET loaded == load_config_as_table(ret.before)
            merged == Insert(loaded.table, ret.key, parse_toml_value(ret.val))
        IN  /\ (loaded.ok /\ ~Coerces(merged)) => (~ret.ok /\ cfgFile = ret.before)
            /\ cfgFile # ret.before => (loaded.ok /\ Coerces(merged))

\* C6 witness: a set_value whose merged document was rejected although the write
\* itself would have succeeded, on an existing config file
C6_Witness ==
    /\ ret.op = "set_value"
    /\ ret.err = "Invalid configuration"
    /\ ret.w = "ok"
    /\ ret.before.exists
    /\ ret.key = "hashtable_dir"
    /\ ret.val = <<"1","2">>

\* C7: after any sequence of load_or_create, set_value and reset, the path value
\* of the persisted config document contains no backslash.
C7_PersistedPathsNormalized ==
    PersistedDir.some => ~HasBackslash(PersistedDir.path)

\* C8: load_or_create leaves an existing file unchanged and returns its contents
\* with an absent hashtable_dir filled from the defaults; with no file it persists
\* the defaults (slash-normalised) and returns them; after success the file
\* exists; it fails when the install directory is unknown, when the existing file
\* does not parse as the schema, and when the write fails.
C8_LoadOrCreateContract ==
    ret.op = "load_or_create" =>
        LET b == ret.before
        IN  /\ ret.ok => cfgFile.exists
            /\ b.exists => cfgFile = b
            /\ (b.exists /\ ret.ok) =>
                   /\ b.toml /\ Coerces(b.table)
                   /\ ret.cfg.hashtable_dir =
                          (IF "hashtable_dir" \in DOMAIN b.table
                           THEN Some_(b.table["hashtable_dir"].val)
                           ELSE defaultDir)
            /\ (~b.exists /\ ret.ok) =>
                   /\ ret.cfg.hashtable_dir = defaultDir
                   /\ cfgFile.toml
                   /\ DOMAIN cfgFile.table \subseteq {"hashtable_dir"}
                   /\ PersistedDir.some = defaultDir.some
                   /\ SlashForm(defaultDir.path, PersistedDir.path)
            /\ ~installDirKnown => ~ret.ok
            /\ (b.exists /\ (~b.toml \/ ~Coerces(b.table))) => ~ret.ok
            /\ (~b.exists /\ ret.w # "ok") => ~ret.ok

\* C8 witness: a load_or_create that found no file and created it from defaults
\* that hold a path
C8_Witness ==
    /\ ret.op = "load_or_create"
    /\ ret.ok
    /\ ~ret.before.exists
    /\ cfgFile.exists
    /\ defaultDir.some
    /\ HasBackslash(defaultDir.path)

(***************************************************************************)
(* Properties of parse_toml_value                                          *)
(***************************************************************************)
\* Literals whose stored type the claim fixes
KnownLiteralTypes ==
    { <<<<"t","r","u","e">>, "Boolean">>, <<<<"f","a","l","s","e">>, "Boolean">>,
      <<<<"T","r","u","e">>, "String">>,
      <<<<"1","0">>, "Integer">>, <<<<"-","1">>, "Integer">>, <<<<"+","0">>, "Integer">>,
      <<<<"1",".","0">>, "Float">>, <<<<"1",".">>, "Float">>, <<<<".","1">>, "Float">>,
      <<<<"1","e","5">>, "String">>, <<<<"1","E","5">>, "String">>,
      <<<<"1","e","1">>, "String">>, <<<<"i","n","f">>, "String">>,
      <<<<"n","a","n">>, "String">>, <<<<".">>, "String">>, <<<<>>, "String">>,
      <<I64MaxMagnitude, "Integer">>, <<I64MinMagnitude, "String">>,
      <<I64MinMagnitude \o <<".","0">>, "Float">> }

\* C9: parse_toml_value stores a boolean if the literal parses as one, else an
\* integer if it parses as one, else a float only if it parses as a float and
\* contains a decimal point, else the string itself; a float literal without a
\* decimal point (1e5) is a string, and a literal that parses as a boolean or an
\* integer is never a string.
C9_MostSpecificPrimitive ==
    parsed.done =>
        LET b == ParseBoolOk(value)
            i == ParseI64Ok(value)
            f == ParseF64Ok(value)
            dot == \E k \in 1..Len(value) : value[k] = "."
        IN  /\ b => parsed.type = "Boolean"
            /\ (~b /\ i) => parsed.type = "Integer"
            /\ (~b /\ ~i /\ f /\ dot) => parsed.type = "Float"
            /\ (~b /\ ~i /\ ~(f /\ dot)) => (parsed.type = "String" /\ parsed.val = value)
            /\ (b \/ i) => parsed.type # "String"
            /\ \A kt \in KnownLiteralTypes : value = kt[1] => parsed.type = kt[2]

\* C9 witness: the float-parsable literal 1e5 was parsed and stored as a string
C9_Witness ==
    /\ parsed.done
    /\ value = <<"1","e","5">>
    /\ ParseF64Ok(value)
    /\ parsed.type = "String"

(***************************************************************************)
(* Properties of convert and of the text normalizer                        *)
(***************************************************************************)
Attempted == { log[i].input : i \in 1..Len(log) }
Yielded == { yielded[i] : i \in 1..Len(yielded) }

InConvert == pc = "walking" \/ out.op \in {"convert_file", "convert_directory"}
BatchDone == out.op = "convert_directory"

IsSupportedFile(p) ==
    /\ IsUtf8(p)
    /\ ~is_dir(p)
    /\ Len(p.name) >= 2
    /\ p.name # <<"", p.name[2]>>
    /\ p.name[Len(p.name)] \in {"bin", "py", "ritobin"}

\* C1: in convert_directory a failed file never stops the walk: at every point of
\* the walk the files attempted are exactly the supported files the walker has
\* yielded, each once and in order, with one count per outcome; the walk ends only
\* when every directory it opened is exhausted; and the result is an error
\* carrying error_count exactly when error_count > 0, success exactly when it is 0.
C1_FailuresDoNotStopTheWalk ==
    (pc = "walking" \/ BatchDone) =>
        /\ Attempted = { e \in Yielded : IsSupportedFile(e) }
        /\ Len(log) = Cardinality(Attempted)
        /\ converted_count = Cardinality({ i \in 1..Len(log) : log[i].ok })
        /\ error_count = Cardinality({ i \in 1..Len(log) : ~log[i].ok })
        /\ BatchDone =>
              /\ \A p \in DOMAIN files0 : p.dir = RootDir => p \in Yielded
              /\ out.ok <=> error_count = 0
              /\ ~out.ok <=> error_count > 0
              /\ ~out.ok => out.count = error_count

\* C1 witness: a finished batch in which a file was converted after another had
\* failed, and which returned the error
C1_Witness ==
    /\ BatchDone
    /\ ~out.ok
    /\ out.count = 1
    /\ \E i, j \in 1..Len(log) : i < j /\ ~log[i].ok /\ log[j].ok

InScope(p) == IF recursive THEN p.dir \in ExistingDirs ELSE p.dir = RootDir

\* A file of a supported extension is convertible when its content is of the
\* format its extension names, and malformed otherwise
Convertible0(p) ==
    IF p.name[Len(p.name)] = "bin" THEN files0[p].fmt = "bin" ELSE files0[p].fmt = "txt"

\* C2: a directory that at the start holds n convertible and m malformed files of
\* a supported extension ends the batch with converted_count = n and
\* error_count = m. Stated for the runs most favourable to the claim: the
\* configuration loads, and the walker yielded no file created during the walk.
C2_CountsMatchInitialFiles ==
    (/\ BatchDone
     /\ cfgFile # Garbage
     /\ \A e \in Yielded : is_dir(e) \/ e \in DOMAIN files0) =>
        LET supported == { p \in DOMAIN files0 : InScope(p) /\ IsSupportedFile(p) }
            n == Cardinality({ p \in supported : Convertible0(p) })
            m == Cardinality({ p \in supported : ~Convertible0(p) })
        IN  converted_count = n /\ error_count = m

\* C3: a non-recursive convert_directory attempts only immediate children of
\* dir_path (all the supported ones) and leaves every file of a sub-directory as
\* it was; a recursive one attempts the supported files at every depth.
C3_RecursionDepth ==
    BatchDone =>
        /\ ~recursive =>
              /\ \A i \in 1..Len(log) : log[i].input.dir = RootDir
              /\ \A p \in DOMAIN files : p.dir # RootDir =>
                     (p \in DOMAIN files0 /\ files[p] = files0[p])
              /\ \A p \in DOMAIN files0 :
                     (p.dir = RootDir /\ IsSupportedFile(p)) => p \in Attempted
        /\ recursive =>
              \A p \in DOMAIN files0 : IsSupportedFile(p) => p \in Attempted

\* C3 witness: a recursive batch that attempted a file of dir_path and a file two
\* directories below it
C3_Witness ==
    /\ BatchDone
    /\ recursive
    /\ \E i, j \in 1..Len(log) :
          /\ log[i].input.dir = RootDir
          /\ Len(log[j].input.dir) >= 3

\* C4: convert_file picks the direction from the extension alone, case-sensitively:
\* bin is binary-to-text, py and ritobin are text-to-binary, and anything else
\* fails with an error naming the extension and the supported set, with no config
\* load and no file opened, created or written.
C4_DispatchByExtension ==
    InConvert =>
        \A i \in 1..Len(log) :
            LET r == log[i]
                n == r.input.name
                ext == IF Len(n) >= 2 /\ n # <<"", n[2]>> THEN n[Len(n)] ELSE ""
            IN  /\ ext = "bin" <=> r.direction = "bin_to_text"
                /\ ext \in {"py", "ritobin"} <=> r.direction = "text_to_bin"
                /\ ext \notin {"bin", "py", "ritobin"} =>
                      /\ ~r.ok
                      /\ r.direction = "none"
                      /\ r.err.ext = ext
                      /\ r.err.supported = {"bin", "py", "ritobin"}
                      /\ r.io = <<>>
                      /\ ~r.dest.some
                      /\ out.op = "convert_file" => files = files0

\* C4 witness: a single-file convert of x.BIN, refused
C4_Witness ==
    /\ out.op = "convert_file"
    /\ Len(log) = 1
    /\ log[1].input.name = <<"x", "BIN">>
    /\ ~out.ok
    /\ log[1].err.ext = "BIN"

Creates(r) == { r.io[k].path : k \in { j \in 1..Len(r.io) : r.io[j].op = "create" } }
Writes(r) == { r.io[k].path : k \in { j \in 1..Len(r.io) : r.io[j].op = "write" } }

\* C5: a successful single-file conversion writes exactly one destination: the
\* given output path, or else the input path with only its extension replaced
\* (bin by py, py or ritobin by bin), in the input's directory and with its stem.
C5_OneDestination ==
    (out.op = "convert_file" /\ out.ok) =>
        LET r == log[1]
            n == r.input.name
            swapped == IF n[Len(n)] = "bin" THEN "py" ELSE "bin"
            dest == IF out.output.some THEN out.output.path
                    ELSE [dir |-> r.input.dir,
                          name |-> SubSeq(n, 1, Len(n) - 1) \o <<swapped>>]
        IN  /\ r.dest = Opt(dest)
            /\ Creates(r) = {dest}
            /\ Writes(r) = {dest}
            /\ DOMAIN files = DOMAIN files0 \cup {dest}
            /\ \A q \in DOMAIN files0 : q # dest => files[q] = files0[q]
            /\ files[dest].fmt = (IF n[Len(n)] = "bin" THEN "txt" ELSE "bin")
            /\ files[dest].tree = files0[r.input].tree

\* C5 witness: d/y.v2.bin converted with no output path given, into d/y.v2.py
C5_Witness ==
    /\ out.op = "convert_file"
    /\ out.ok
    /\ ~out.output.some
    /\ log[1].input = Path(RootDir, <<"y", "v2", "bin">>)
    /\ Path(RootDir, <<"y", "v2", "py">>) \in DOMAIN files
    /\ Path(RootDir, <<"y", "v2", "py">>) \notin DOMAIN files0

\* The binary-to-text records that got as far as choosing a provider
Rendering ==
    { i \in 1..Len(log) :
        /\ log[i].direction = "bin_to_text"
        /\ log[i].err.msg \notin { "Could not determine config path",
                                   "Failed to parse config file",
                                   "Failed to save config file",
                                   "Failed to open input file", "Failed to open file",
                                   "Failed to parse .bin file" } }

\* C10: the provider depends only on the loaded configuration: HashMapProvider
\* when hashtable_dir is present, HexHashProvider exactly when it is absent; convert
\* and diff choose alike for the same configuration; and a missing or unreadable
\* hashtable directory fails neither the choice nor the rendering.
C10_ProviderSelection ==
    \A i \in Rendering :
        LET r == log[i]
        IN  /\ r.provider.kind = "HashMapProvider" <=> r.cfg.hashtable_dir.some
            /\ r.provider.kind = "HexHashProvider" <=> ~r.cfg.hashtable_dir.some
            /\ r.provider = convert_provider(r.cfg, hashDir)
            /\ r.provider = diff_provider(r.cfg, hashDir)
            /\ \A c \in {AppConfig(None_), AppConfig(Some_(HashtableDir))},
                  d \in {"present", "missing", "unreadable"} :
                  convert_provider(c, d) = diff_provider(c, d)
            /\ r.err.msg \in {"", "Failed to create output file"}
            /\ out.op = "diff" => r.ok

\* C10 witness: a diff that rendered a binary file with the HashMapProvider
\* although the configured hashtable directory cannot be read
C10_Witness ==
    /\ out.op = "diff"
    /\ hashDir = "unreadable"
    /\ \E i \in Rendering :
          /\ log[i].cfg.hashtable_dir.some
          /\ log[i].provider.kind = "HashMapProvider"
          /\ log[i].ok

(***************************************************************************)
(* C11: the text normalizer dispatches purely by extension                 *)
(***************************************************************************)
DiffDone == pc = "done" /\ out.op = "diff"

\* The texts diff obtained, by the record of the file each came from
Normalized == { i \in 1..Len(log) : i <= Len(out.texts) /\ log[i].ok }

\* C11: file_to_ritobin_text dispatches by extension alone. For a py or ritobin
\* file it returns the content of the file exactly as read, and no resolver is
\* built for it; for a bin file it returns the rendering of the parsed tree with
\* the resolver the configuration selects; for any other extension it fails with
\* the unsupported-extension error, having opened nothing.
C11_NormalizerDispatch ==
    /\ DiffDone =>
          \A i \in Normalized :
             LET r == log[i]
             IN  /\ extension(r.input) \in {"py", "ritobin"} =>
                       /\ out.texts[i] = files0[r.input]
                       /\ r.provider = NoProvider
                 /\ extension(r.input) = "bin" =>
                       /\ BinTree_from_reader(files0[r.input]).ok
                       /\ r.provider # NoProvider
                       /\ out.texts[i] = TextOf(files0[r.input].tree, r.provider.names)
    /\ \A p \in OddPaths \cup {Path(RootDir, <<"x","txt">>)} :
          LET t == file_to_ritobin_text(files, p, AppConfig(None_))
          IN  /\ ~t.rec.ok
              /\ t.rec.err = UnsupportedExtension(extension(p))
              /\ t.rec.io = <<>>
    /\ \A p \in DOMAIN files :
          extension(p) \in SUPPORTED_EXTENSIONS =>
             file_to_ritobin_text(files, p, AppConfig(None_)).rec.err.ext = ""

\* A diff of a text file against a binary file, rendered with the loaded tables
C11_Witness ==
    /\ DiffDone
    /\ out.ok
    /\ hashDir = "present"
    /\ Len(log) = 2
    /\ extension(log[1].input) = "py"
    /\ extension(log[2].input) = "bin"
    /\ out.texts[1] = files0[log[1].input]
    /\ out.texts[2].names = "table"

(***************************************************************************)
(* C12, C13: the diff engine                                               *)
(***************************************************************************)
Kinds(printed) == { printed[i].kind : i \in 1..Len(printed) }

ItemsOf(printed, kind) == { i \in 1..Len(printed) : printed[i].kind = kind }

\* C12: a text diffed against itself takes the identical short-circuit whatever the
\* context radius (no insertion, no deletion, nothing printed but the notice), and
\* two texts that differ in at least one line never take it: they get the two
\* headers, at least one hunk and the summary.
C12_IdenticalShortCircuit ==
    dd.done =>
       /\ dd.text1 = dd.text2 =>
             /\ dd.identical
             /\ dd.insertions = 0
             /\ dd.deletions = 0
             /\ Kinds(dd.printed) = {"identical"}
             /\ Len(dd.printed) = 1
       /\ dd.text1 # dd.text2 =>
             /\ ~dd.identical
             /\ {"header_old", "header_new", "hunk_header", "summary"} \subseteq Kinds(dd.printed)
             /\ "identical" \notin Kinds(dd.printed)

\* What is printed without its colours
Structure(printed) == [i \in 1..Len(printed) |-> [printed[i] EXCEPT !.color = "none"]]

SignLines(printed, sign) ==
    { i \in 1..Len(printed) : printed[i].kind = "line" /\ printed[i].sign = sign }

AbcText == <<"a","\n","b","\n","c","\n">>
AxcText == <<"a","\n","x","\n","c","\n">>

\* C13: the counts a diff reports are the numbers of inserted and deleted lines of
\* the whole change set of the two texts (the lines of the new text, and of the old
\* one, outside a longest common subsequence), whatever the context radius; every
\* one of them is printed in some hunk; and the other colour mode gives the same
\* counts and the same sequence of headers, hunk headers, signed lines and summary.
\* "a\nb\nc\n" against "a\nx\nc\n" gives 1 insertion and 1 deletion.
C13_CountsOverWholeChangeSet ==
    (dd.done /\ "summary" \in Kinds(dd.printed)) =>
       LET common == Lcs(Lines(dd.text1), Lines(dd.text2))
           other == display_diff(dd.pad, dd.text1, dd.text2, dd.ops, dd.context_lines,
                                 ~dd.no_color)
       IN  /\ dd.insertions = Len(Lines(dd.text2)) - common
           /\ dd.deletions = Len(Lines(dd.text1)) - common
           /\ \A i \in ItemsOf(dd.printed, "summary") :
                 dd.printed[i].nums = <<dd.insertions, dd.deletions>>
           /\ Cardinality(ItemsOf(dd.printed, "summary")) = 1
           /\ Cardinality(SignLines(dd.printed, "+")) = dd.insertions
           /\ Cardinality(SignLines(dd.printed, "-")) = dd.deletions
           /\ other.insertions = dd.insertions
           /\ other.deletions = dd.deletions
           /\ Structure(other.printed) = Structure(dd.printed)
           /\ (dd.text1 = AbcText /\ dd.text2 = AxcText) =>
                 dd.insertions = 1 /\ dd.deletions = 1

\* The example of the claim, coloured, with changes that fall outside no hunk
C13_Witness ==
    /\ dd.done
    /\ dd.pad = 0
    /\ dd.text1 = AbcText
    /\ dd.text2 = AxcText
    /\ dd.context_lines = 0
    /\ ~dd.no_color
    /\ dd.insertions = 1
    /\ dd.deletions = 1
    /\ Cardinality(ItemsOf(dd.printed, "hunk_header")) = 1

(***************************************************************************)
(* C15, C16: the command line                                              *)
(***************************************************************************)
\* The operation each command of the CLI surface names
Operation(cmd) ==
    CASE cmd = "convert" -> "convert"
      [] cmd = "diff" -> "diff"
      [] cmd = "config show" -> "show_config"
      [] cmd = "config reset" -> "reset_config"
      [] cmd = "config set" -> "set_config_value"
      [] cmd = "download-hashes" -> "download_hashes"
      [] OTHER -> "none"

\* C15: every command of the CLI surface (convert, diff, config show / reset / set,
\* download-hashes) is accepted by the entry point and reaches its operation.
C15_EveryCommandDispatched ==
    cli.cmd # "none" =>
       /\ cli.parsed
       /\ cli.reached = Operation(cli.cmd)

BinRenderings == { i \in 1..Len(log) : log[i].direction = "bin_to_text" /\ log[i].provider # NoProvider }

\* C16: when --hashtable-dir is given, every binary file of the invocation is
\* rendered with the tables loaded from the directory it names, whatever the config
\* file and the default discovery say.
C16_OptionOverridesHashtableDir ==
    cli.hashtable_dir.some =>
       \A i \in BinRenderings :
          /\ log[i].provider.kind = "HashMapProvider"
          /\ log[i].cfg.hashtable_dir = cli.hashtable_dir

(***************************************************************************)
(* C17, C20: I/O failures and the destination file                         *)
(***************************************************************************)
Events(r) == { r.io[k].op : k \in 1..Len(r.io) }

FileDone == pc = "done" /\ out.op = "convert_file" /\ Len(log) = 1

\* C17: no I/O failure is dropped silently (but for the load of the hash tables and
\* the skip of a non-UTF8 path): a conversion that returns success has not lost
\* the flush of its output, and its destination holds all of the bytes; a batch
\* in which a directory could not be listed does not end in success; a run whose
\* config file could not be written does not end in success.
C17_IoFailuresSurface ==
    /\ \A i \in 1..Len(log) : log[i].ok => "flush_failed_in_drop" \notin Events(log[i])
    /\ (FileDone /\ out.ok /\ log[1].dest.some) =>
          /\ log[1].dest.path \in DOMAIN files
          /\ files[log[1].dest.path] # Truncated
    /\ (pc = "done" /\ out.op = "convert_directory" /\ dropped # <<>>) => ~out.ok
    /\ (pc = "done" /\ out.op # "none" /\ cli.ensured = "Failed to save config file") =>
          ~out.ok

\* The failures of a conversion that come before its output is opened
EarlyFailures ==
    { "Failed to open input file", "Failed to parse .bin file",
      "Failed to parse ritobin file", "Failed to convert to ritobin format",
      "Failed to convert to binary format", "Failed to parse config file",
      "Failed to save config file", "Could not determine config path" }

\* The place of an access among those a conversion made (0 when it did not make it)
Position(r, op) ==
    IF op \in Events(r) THEN CHOOSE k \in 1..Len(r.io) : r.io[k].op = op ELSE 0

\* C20: a conversion opens (creates or truncates) its destination only after the
\* input was read, parsed and rendered or serialized: when convert_file fails on
\* loading the configuration, on opening or parsing the input, on rendering the
\* text or on serializing the tree, it has created no file and every file is as it
\* was; and a conversion that does create its destination has opened its input
\* before.
C20_DestinationAfterInput ==
    /\ (FileDone /\ ~log[1].ok /\ log[1].err.msg \in EarlyFailures) =>
          /\ files = files0
          /\ "create" \notin Events(log[1])
    /\ \A i \in 1..Len(log) :
          "create" \in Events(log[i]) =>
             /\ Position(log[i], "open") > 0
             /\ Position(log[i], "open") < Position(log[i], "create")
             /\ log[i].err.msg \notin EarlyFailures

\* A binary file that parses but cannot be rendered, beside the text file its
\* conversion would have replaced
C20_Witness ==
    /\ FileDone
    /\ ~log[1].ok
    /\ log[1].err.msg = "Failed to convert to ritobin format"
    /\ log[1].input = Path(RootDir, <<"x","bin">>)
    /\ ~out.output.some
    /\ Path(RootDir, <<"x","py">>) \in DOMAIN files
    /\ files = files0

(***************************************************************************)
(* C18: one configuration and one resolver per operation                   *)
(***************************************************************************)
\* The files of the current operation for which the configuration was loaded
ConfigLoads == { i \in 1..Len(log) : "load_config" \in Events(log[i]) }

\* The files of the current operation for which a table-backed resolver was built
\* and filled from the hashtable directory
ResolversBuilt ==
    { i \in 1..Len(log) : log[i].provider # NoProvider /\ log[i].provider.kind = "HashMapProvider" }

\* C18: within one top-level operation (a convert of a file or of a directory, a
\* diff) the configuration is loaded once and the hash resolver is constructed
\* once, not once per file.
C18_OncePerOperation ==
    /\ Cardinality(ConfigLoads) <= 1
    /\ Cardinality(ResolversBuilt) <= 1

(***************************************************************************)
(* C19: the downloads                                                      *)
(***************************************************************************)
IsPrefix(a, b) == Len(a) <= Len(b) /\ a = SubSeq(b, 1, Len(a))

\* C19: download_hashes requests the four files in the order of HASH_FILES and
\* stops at the first failure: once the download of file k has failed the
\* operation ends with that error, nothing after k is requested or created (what
\* the directory held under those names is as it was), and the files before k are
\* whole; it ends in success only after four downloads that all succeeded; and
\* with no hashtable_dir configured it fails before making a directory or a
\* request.
C19_SequentialAbortOnFirstFailure ==
    /\ IsPrefix(dl.requested, HASH_FILES)
    /\ \A j \in 1..Len(dl.created) :
          \E i \in 1..Len(dl.requested) : dl.created[j] = dl.requested[i]
    /\ dl.failed # 0 =>
          /\ dl.pc = "done"
          /\ ~dl.ok
          /\ dl.err # ""
          /\ Len(dl.requested) = dl.failed
          /\ \A j \in 1..Len(HASH_FILES) :
                /\ j < dl.failed => dl.saved[j] = "new"
                /\ j > dl.failed =>
                      /\ dl.saved[j] = dl.saved0[j]
                      /\ \A i \in 1..Len(dl.created) : dl.created[i] # HASH_FILES[j]
    /\ dl.ok =>
          /\ dl.pc = "done"
          /\ dl.failed = 0
          /\ dl.requested = HASH_FILES
          /\ dl.created = HASH_FILES
          /\ \A j \in 1..Len(HASH_FILES) : dl.saved[j] = "new"
    /\ (dl.pc = "done" /\ dl.err = "No hashtable directory configured") =>
          /\ ~dl.dir_made
          /\ dl.requested = <<>>
          /\ dl.created = <<>>
          /\ dl.saved = dl.saved0


\* The third download fails in the middle of the copy, with an older fourth file
\* in the directory
C19_Witness ==
    /\ dl.pc = "done"
    /\ dl.failed = 3
    /\ dl.err = "Failed to write to file"
    /\ dl.saved = <<"new", "new", "partial", "old">>
    /\ dl.requested = SubSeq(HASH_FILES, 1, 3)

====
